---- MODULE Spec2Model ----
(***************************************************************************)
(* Model of ContentTaskManager (src/content_creators/task_manager.py): the *)
(* task store, the synchronous send path, the streaming path and the       *)
(* event publication of the content-creation task manager.                 *)
(*                                                                         *)
(* Scheduling is cooperative (asyncio): a coroutine runs until it awaits   *)
(* the external agent or the network (push URL verification, push          *)
(* delivery).  The variable cur names the coroutine that holds the event   *)
(* loop; 0 means the loop is free and any ready coroutine may be resumed.  *)
(***************************************************************************)
EXTENDS Integers, Sequences, FiniteSets, TLC

\* ------------------------------------------------------------------ bounds
\* requests received in a behaviour
MaxRequests == 2

\* Every handler reads and writes only the entries of its own request's task
\* id (tasks, task_messages, push infos, event stream), so one id carries every
\* interaction between requests.  Two client connections are served at a time.
TaskIds == {"t1"}
Connections == {"c1", "c2"}
Reqs == 1..MaxRequests

\* ------------------------------------------------------------- vocabulary
Terminal == {"COMPLETED", "FAILED", "ERROR"}
AgentSuccess == {"img_ok", "img_err", "img_none"}
AgentOutcomes == AgentSuccess \cup {"raise"}
MessageKinds == {"text", "file", "empty"}
PushKinds == {"none", "empty_url", "url"}

\* SUPPORTED_CONTENT_TYPES, and the output modes a request may accept
SUPPORTED_CONTENT_TYPES == {"text", "text/plain", "image/png", "application/json"}
ModeUniverse == SUPPORTED_CONTENT_TYPES \cup {"video/mp4"}
AcceptedModeSets == SUBSET ModeUniverse

\* the accepted modes of the requests that arrive: none, supported only,
\* unsupported only, and a mix
RequestModeSets == {{}, {"text"}, {"video/mp4"}, {"image/png", "video/mp4"}}

NoStatus == [state |-> "-", message |-> "-"]
NoTask == [present |-> FALSE, status |-> NoStatus, artifacts |-> <<>>]

IdleReq == [kind |-> "-", tid |-> "-", msg |-> "-", handle |-> -1,
            pc |-> "idle", cont |-> "-", resp |-> "-", outcome |-> "-",
            invokes |-> 0, appended |-> 0, events |-> <<>>,
            verified |-> "-", created |-> FALSE, lost |-> FALSE, caught |-> FALSE,
            push |-> "-"]

\* a coroutine that has ended: its frame (request, locals, result) is dropped
GoneReq == [IdleReq EXCEPT !.pc = "gone"]

\* a direct call of one operation of the task manager: its arguments and result
NoCall == [n |-> 0, op |-> "-"]

\* the event broker on its own: the events published per task id and the
\* consumers, each with its queue and the events it has taken from it
MaxSubscribers == 2
MaxEvents == 3
BrokerIds == {"t1", "t2"}
Subscribers == 1..MaxSubscribers
NoSubscriber == [state |-> "new", tid |-> "-", at |-> 0,
                 queue |-> <<>>, received |-> <<>>]
NoBroker == [events |-> [t \in BrokerIds |-> <<>>],
             subscribers |-> [s \in Subscribers |-> NoSubscriber]]

VARIABLES hasSender, tasks, task_messages, push_infos, published, req, cur, nreq,
          call, broker

vars == <<hasSender, tasks, task_messages, push_infos, published, req, cur, nreq,
          call, broker>>

\* ---------------------------------------------------------------- helpers
TaskStatus(state, message) == [state |-> state, message |-> message]

\* TaskStatusUpdateEvent(id, status, final)
StatusEvent(status, final) ==
    [type |-> "status", state |-> status.state, final |-> final, index |-> -1]

\* TaskArtifactUpdateEvent(id, artifact)
ArtifactEvent(index) ==
    [type |-> "artifact", state |-> "-", final |-> FALSE, index |-> index]

\* image_data and not image_data.error
ImagePresentMut(outcome) == outcome \in {"img_ok", "img_err"}
ImagePresent(outcome) == outcome = "img_ok"

\* artifacts built from (content_data, image_data): text at index 0, image at 1
BuildArtifacts(outcome) == IF ImagePresent(outcome) THEN <<0, 1>> ELSE <<0>>

\* the summary message of the completion status
Summary(outcome) ==
    CASE outcome = "img_ok"  -> "summary+image"
      [] outcome = "img_err" -> "summary+image_error"
      [] OTHER               -> "summary"

\* line 135-141: the status stored when invoke raises on the send path
SendFailureStatusMut == TaskStatus("ERROR", "error")
SendFailureStatus == TaskStatus("FAILED", "error")

\* line 382-386: the status stored when the streaming run catches an exception
StreamFailureStatusMut == TaskStatus("FAILED", "error")
StreamFailureStatus == TaskStatus("ERROR", "error")

\* are_modalities_compatible: the two sets of modes have a common element
AreModalitiesCompatible(accepted, supported) == accepted \cap supported # {}

\* _validate_request: the modes first, then the push URL
ValidateRequestMut(modesOK, push) ==
    IF push = "empty_url" THEN "InvalidParams"
    ELSE IF ~modesOK THEN "IncompatibleTypes"
    ELSE "ok"

ValidateRequest(modesOK, push) ==
    IF ~modesOK THEN "IncompatibleTypes"
    ELSE IF push = "empty_url" THEN "InvalidParams"
    ELSE "ok"

\* _get_user_query raises unless parts[0] exists and is a TextPart
QueryRaises(msg) == msg # "text"

\* upsert_task: create the record when the id is absent
UpsertTaskMut(ts, tid) ==
    [ts EXCEPT ![tid] = [present |-> TRUE,
                         status |-> TaskStatus("SUBMITTED", "-"),
                         artifacts |-> <<>>]]
UpsertTask(ts, tid) ==
    IF ts[tid].present THEN ts
    ELSE [ts EXCEPT ![tid] = [present |-> TRUE,
                              status |-> TaskStatus("SUBMITTED", "-"),
                              artifacts |-> <<>>]]

\* on_send_task_subscribe lines 230-234: the task is upserted only when the
\* request passed validation
StoreAfterValidationMut(err, ts, tid) == UpsertTask(ts, tid)
StoreAfterValidation(err, ts, tid) ==
    IF err # "ok" THEN ts ELSE UpsertTask(ts, tid)

\* update_store lines 466-471: an id that is not in the store raises ValueError
UpdateRaises(ts, tid) == ~ts[tid].present

\* update_store, the task part: status replaced when given, artifacts extended;
\* nothing is touched when the lookup raised
UpdateStoreMut(ts, tid, status, artifacts) ==
    [ts EXCEPT ![tid] =
        [present |-> TRUE,
         status |-> IF status # NoStatus THEN status ELSE @.status,
         artifacts |-> @.artifacts \o artifacts]]
UpdateStore(ts, tid, status, artifacts) ==
    IF UpdateRaises(ts, tid) THEN ts
    ELSE [ts EXCEPT ![tid] =
            [@ EXCEPT !.status = IF status # NoStatus THEN status ELSE @,
                      !.artifacts = @ \o artifacts]]

\* update_store, the history part: status.message appended when present
UpdateMessagesMut(tm, tid, status) == tm
UpdateMessagesPrependMut(tm, tid, status) ==
    IF status # NoStatus /\ status.message # "-"
    THEN [tm EXCEPT ![tid] = <<status.message>> \o @]
    ELSE tm
UpdateMessages(tm, tid, status) ==
    IF status # NoStatus /\ status.message # "-"
    THEN [tm EXCEPT ![tid] = Append(@, status.message)]
    ELSE tm

\* lines 102 and 236: the config of a request is registered only when the
\* request carries one and the manager was built with a sender
RegistersPushMut(push, sender) == push = "url"
RegistersPush(push, sender) == push = "url" /\ sender

\* set_push_notification_info, lines 441-460: the config is stored only with a
\* sender and after the challenge request verified the URL
SetPushNotificationInfoMut(infos, sender, tid, url, verified) ==
    IF sender THEN [infos EXCEPT ![tid] = url] ELSE infos
SetPushNotificationInfo(infos, sender, tid, url, verified) ==
    IF sender /\ verified THEN [infos EXCEPT ![tid] = url] ELSE infos

\* its return value
PushInfoSet(sender, verified) == sender /\ verified

\* lines 103-111 and 237-245: the handler goes on only when the registration
\* returned true, and answers InvalidParams otherwise
AfterRegistrationMut(rec, registered, next) ==
    [rec EXCEPT !.pc = next, !.verified = IF registered THEN "yes" ELSE "no"]
AfterRegistration(rec, registered, next) ==
    IF registered
    THEN [rec EXCEPT !.pc = next, !.verified = "yes"]
    ELSE [rec EXCEPT !.pc = "done", !.resp = "InvalidParams", !.verified = "no"]

\* send_task_notification reaches the network only with a sender and a config
NeedsDelivery(tid) == hasSender /\ push_infos[tid] # "none"

\* position of request r after a notify point: suspended in the delivery, or on
AfterNotify(rec, next) ==
    IF NeedsDelivery(rec.tid)
    THEN [rec EXCEPT !.pc = "deliver", !.cont = next]
    ELSE [rec EXCEPT !.pc = next]

CurAfterNotify(r) == IF NeedsDelivery(req[r].tid) THEN 0 ELSE r

\* enqueue_events_for_sse: the event goes on the task id's event stream
Publish(pub, tid, event) == [pub EXCEPT ![tid] = Append(@, event)]

\* setup_sse_consumer: the new consumer is attached at the end of the stream
\* and is handed the events published for the id from then on
SetupSseConsumer(pub, tid) == Len(pub[tid])

Holds(r) == cur = r
Free == cur = 0

\* requests whose handler or scheduled run has not ended
InFlight == {r \in Reqs : req[r].pc \notin {"idle", "gone"}}

\* the next request arrives while the loop is free
Arrives(r) ==
    /\ Free /\ r = nreq + 1 /\ req[r].pc = "idle"
    /\ Cardinality(InFlight) < Cardinality(Connections)

\* ------------------------------------------------------------------- Init
Init ==
    /\ hasSender \in BOOLEAN
    /\ tasks = [t \in TaskIds |-> NoTask]
    /\ task_messages = [t \in TaskIds |-> <<>>]
    /\ push_infos = [t \in TaskIds |-> "none"]
    /\ published = [t \in TaskIds |-> <<>>]
    /\ req = [r \in Reqs |-> IdleReq]
    /\ cur = 0
    /\ nreq = 0
    /\ call = NoCall
    /\ broker = NoBroker

\* ------------------------------------------------------- on_send_task
\* lines 98-111: validation, then push registration when a sender exists
SendReceive(r) ==
    /\ Arrives(r)
    /\ nreq' = r
    /\ \E tid \in TaskIds, msg \in MessageKinds, push \in PushKinds,
          accepted \in RequestModeSets :
       LET err == ValidateRequest(
                    AreModalitiesCompatible(accepted, SUPPORTED_CONTENT_TYPES), push)
           base == [IdleReq EXCEPT !.kind = "send", !.tid = tid, !.msg = msg]
       IN IF err # "ok"
          THEN /\ req' = [req EXCEPT ![r] = [base EXCEPT !.pc = "done", !.resp = err]]
               /\ cur' = r
          ELSE IF RegistersPush(push, hasSender)
          THEN /\ req' = [req EXCEPT ![r] =
                            [base EXCEPT !.pc = "verify", !.push = push]]
               /\ cur' = 0
          ELSE /\ req' = [req EXCEPT ![r] =
                            [base EXCEPT !.pc = "upsert", !.push = push]]
               /\ cur' = r
    /\ UNCHANGED <<broker, call, hasSender, tasks, task_messages, push_infos, published>>

\* set_push_notification_info after the challenge request returned (send path)
SendVerifyReturn(r, verified) ==
    /\ Free /\ req[r].kind = "send" /\ req[r].pc = "verify"
    /\ push_infos' = SetPushNotificationInfo(push_infos, hasSender, req[r].tid,
                                             "url", verified)
    /\ req' = [req EXCEPT ![r] =
                 AfterRegistration(@, PushInfoSet(hasSender, verified), "upsert")]
    /\ cur' = r
    /\ UNCHANGED <<broker, call, hasSender, tasks, task_messages, published, nreq>>

\* lines 113-119: upsert, WORKING, notify
SendUpsertWorking(r) ==
    /\ Holds(r) /\ req[r].kind = "send" /\ req[r].pc = "upsert"
    /\ LET tid == req[r].tid
           status == TaskStatus("WORKING", "-")
       IN /\ tasks' = UpdateStore(UpsertTask(tasks, tid), tid, status, <<>>)
          /\ task_messages' = UpdateMessages(task_messages, tid, status)
    /\ req' = [req EXCEPT ![r] =
                 AfterNotify([@ EXCEPT !.verified = "-", !.push = "-"], "query")]
    /\ cur' = CurAfterNotify(r)
    /\ UNCHANGED <<broker, call, hasSender, push_infos, published, nreq>>

\* send_push_notification: the sender posts the task to the URL; it logs a
\* failed delivery and returns (notify is best-effort)
SendPushNotificationMut(delivered) == IF delivered THEN "returned" ELSE "raised"
SendPushNotification(delivered) == "returned"

\* send_task_notification has no try of its own: an exception of the sender
\* would surface at the notify point.  It is caught when the notify point lies
\* in a try block (lines 124-129 through _process_agent_response, 273-376), not
\* at line 119 nor in the except blocks themselves (lines 146, 389).
NotifyRaiseCaught(rec) ==
    \/ rec.kind = "send" /\ rec.cont = "retC"
    \/ /\ rec.kind = "subscribe" /\ rec.cont \in {"publish1", "publish2", "publishF"}
       /\ rec.outcome # "raise" /\ ~rec.caught

\* the notify points after which the handler returns or the run publishes its
\* final event (lines 146, 221, 371, 389)
LastNotify(rec) == rec.cont \in {"retC", "retF", "publishF"}

\* lines 434-439: send_push_notification ended.  When it returns, the caller
\* resumes at the statement after the notify point, whatever the delivery did.
DeliverReturn(r, delivered) ==
    /\ Free /\ req[r].pc = "deliver"
    /\ LET rec == [req[r] EXCEPT !.lost = LastNotify(req[r]) /\ ~delivered]
           tid == rec.tid
       IN IF SendPushNotification(delivered) = "returned"
          THEN /\ req' = [req EXCEPT ![r] = [rec EXCEPT !.pc = rec.cont, !.cont = "-"]]
               /\ cur' = r
               /\ UNCHANGED <<tasks, task_messages>>
          ELSE IF NotifyRaiseCaught(rec)
          THEN LET status == IF rec.kind = "send" THEN SendFailureStatus
                             ELSE StreamFailureStatus
               IN /\ tasks' = UpdateStore(tasks, tid, status, <<>>)
                  /\ task_messages' = UpdateMessages(task_messages, tid, status)
                  /\ req' = [req EXCEPT ![r] =
                        AfterNotify([rec EXCEPT !.caught = TRUE],
                                    IF rec.kind = "send" THEN "retF" ELSE "publishF")]
                  /\ cur' = CurAfterNotify(r)
          ELSE /\ req' = [req EXCEPT ![r] =
                        IF rec.kind = "send"
                        THEN [rec EXCEPT !.pc = "done", !.cont = "-", !.resp = "raised"]
                        ELSE [rec EXCEPT !.pc = "crashed", !.cont = "-"]]
               /\ cur' = r
               /\ UNCHANGED <<tasks, task_messages>>
    /\ UNCHANGED <<broker, call, hasSender, push_infos, published, nreq>>

\* lines 121-127: _get_user_query (outside the try), then await agent.invoke
SendQuery(r) ==
    /\ Holds(r) /\ req[r].kind = "send" /\ req[r].pc = "query"
    /\ IF QueryRaises(req[r].msg)
       THEN /\ req' = [req EXCEPT ![r].pc = "done", ![r].resp = "raised"]
            /\ cur' = r
       ELSE /\ req' = [req EXCEPT ![r].pc = "invoke", ![r].invokes = @ + 1,
                                  ![r].msg = "-"]
            /\ cur' = 0
    /\ UNCHANGED <<broker, call, hasSender, tasks, task_messages, push_infos, published, nreq>>

\* lines 127-147 and _process_agent_response: the agent returned or raised
SendAgentReturn(r, outcome) ==
    /\ Free /\ req[r].kind = "send" /\ req[r].pc = "invoke"
    /\ LET tid == req[r].tid
       IN IF outcome = "raise"
          THEN LET status == SendFailureStatus
               IN /\ tasks' = UpdateStore(tasks, tid, status, <<>>)
                  /\ task_messages' = UpdateMessages(task_messages, tid, status)
                  /\ req' = [req EXCEPT ![r] =
                        AfterNotify([@ EXCEPT !.outcome = outcome], "retF")]
          ELSE LET status == TaskStatus("COMPLETED", Summary(outcome))
                   arts == BuildArtifacts(outcome)
               IN /\ tasks' = UpdateStore(tasks, tid, status, arts)
                  /\ task_messages' = UpdateMessages(task_messages, tid, status)
                  /\ req' = [req EXCEPT ![r] =
                        AfterNotify([@ EXCEPT !.outcome = outcome,
                                              !.appended = @ + Len(arts)], "retC")]
    /\ cur' = CurAfterNotify(r)
    /\ UNCHANGED <<broker, call, hasSender, push_infos, published, nreq>>

\* lines 148-151 and 223: the response
SendReturn(r) ==
    /\ Holds(r) /\ req[r].kind = "send" /\ req[r].pc \in {"retC", "retF"}
    /\ req' = [req EXCEPT ![r].pc = "done",
                          ![r].resp = IF req[r].pc = "retC" THEN "result"
                                      ELSE "InternalError"]
    /\ cur' = r
    /\ UNCHANGED <<broker, call, hasSender, tasks, task_messages, push_infos, published, nreq>>

\* ------------------------------------------------- on_send_task_subscribe
\* lines 230-245: validation, upsert, then push registration
SubscribeReceive(r) ==
    /\ Arrives(r)
    /\ nreq' = r
    /\ \E tid \in TaskIds, msg \in MessageKinds, push \in PushKinds,
          accepted \in RequestModeSets :
       LET err == ValidateRequest(
                    AreModalitiesCompatible(accepted, SUPPORTED_CONTENT_TYPES), push)
           base == [IdleReq EXCEPT !.kind = "subscribe", !.tid = tid, !.msg = msg]
       IN /\ tasks' = StoreAfterValidation(err, tasks, tid)
          /\ IF err # "ok"
             THEN /\ req' = [req EXCEPT ![r] =
                               [base EXCEPT !.pc = "done", !.resp = err]]
                  /\ cur' = r
             ELSE IF RegistersPush(push, hasSender)
             THEN /\ req' = [req EXCEPT ![r] =
                               [base EXCEPT !.pc = "verify", !.push = push,
                                            !.created = ~tasks[tid].present]]
                  /\ cur' = 0
             ELSE /\ req' = [req EXCEPT ![r] =
                               [base EXCEPT !.pc = "setup", !.push = push]]
                  /\ cur' = r
    /\ UNCHANGED <<broker, call, hasSender, task_messages, push_infos, published>>

\* set_push_notification_info after the challenge request returned (subscribe)
SubscribeVerifyReturn(r, verified) ==
    /\ Free /\ req[r].kind = "subscribe" /\ req[r].pc = "verify"
    /\ push_infos' = SetPushNotificationInfo(push_infos, hasSender, req[r].tid,
                                             "url", verified)
    /\ req' = [req EXCEPT ![r] =
                 AfterRegistration(@, PushInfoSet(hasSender, verified), "setup")]
    /\ cur' = r
    /\ UNCHANGED <<broker, call, hasSender, tasks, task_messages, published, nreq>>

\* lines 247-257: open the consumer, schedule the run, return the handle
SubscribeSetup(r) ==
    /\ Holds(r) /\ req[r].kind = "subscribe" /\ req[r].pc = "setup"
    /\ req' = [req EXCEPT ![r].pc = "scheduled", ![r].resp = "stream",
                          ![r].verified = "-", ![r].created = FALSE,
                          ![r].push = "-",
                          ![r].handle = SetupSseConsumer(published, req[r].tid)]
    /\ cur' = 0
    /\ UNCHANGED <<broker, call, hasSender, tasks, task_messages, push_infos, published, nreq>>

\* ------------------------------------------- _run_streaming_content_creation
\* lines 270-271: _get_user_query, outside the try
RunStart(r) ==
    /\ Free /\ req[r].kind = "subscribe" /\ req[r].pc = "scheduled"
    /\ IF QueryRaises(req[r].msg)
       THEN /\ req' = [req EXCEPT ![r].pc = "crashed"]
            /\ cur' = r
       ELSE /\ req' = [req EXCEPT ![r].pc = "working1", ![r].msg = "-"]
            /\ cur' = r
    /\ UNCHANGED <<broker, call, hasSender, tasks, task_messages, push_infos, published, nreq>>

WorkingMessage(pc) == IF pc \in {"working1", "publish1"} THEN "starting" ELSE "progress"

\* lines 275-283 and 291-299: WORKING with a message, notify
RunUpdateWorking(r) ==
    /\ Holds(r) /\ req[r].kind = "subscribe" /\ req[r].pc \in {"working1", "working2"}
    /\ LET tid == req[r].tid
           status == TaskStatus("WORKING", WorkingMessage(req[r].pc))
       IN /\ tasks' = UpdateStore(tasks, tid, status, <<>>)
          /\ task_messages' = UpdateMessages(task_messages, tid, status)
    /\ req' = [req EXCEPT ![r] =
                 AfterNotify(@, IF req[r].pc = "working1" THEN "publish1" ELSE "publish2")]
    /\ cur' = CurAfterNotify(r)
    /\ UNCHANGED <<broker, call, hasSender, push_infos, published, nreq>>

\* lines 285-288 and 301-307: the WORKING event; the second is followed by invoke
RunPublishWorking(r) ==
    /\ Holds(r) /\ req[r].kind = "subscribe" /\ req[r].pc \in {"publish1", "publish2"}
    /\ LET status == TaskStatus("WORKING", WorkingMessage(req[r].pc))
           event == StatusEvent(status, FALSE)
       IN /\ published' = Publish(published, req[r].tid, event)
          /\ IF req[r].pc = "publish1"
             THEN /\ req' = [req EXCEPT ![r].pc = "working2",
                                        ![r].events = Append(@, event)]
                  /\ cur' = r
             ELSE /\ req' = [req EXCEPT ![r].pc = "invoke", ![r].invokes = @ + 1,
                                        ![r].events = Append(@, event)]
                  /\ cur' = 0
    /\ UNCHANGED <<broker, call, hasSender, tasks, task_messages, push_infos, nreq>>

\* lines 307-320 and 378: after invoke the run stores the text artifact, or
\* enters the except block when invoke raised; it does not call invoke again
AfterInvokeMut(outcome) == IF outcome = "raise" THEN "publish2" ELSE "text"
AfterInvoke(outcome) == IF outcome = "raise" THEN "error" ELSE "text"

\* line 307: the agent returned or raised
RunAgentReturn(r, outcome) ==
    /\ Free /\ req[r].kind = "subscribe" /\ req[r].pc = "invoke"
    /\ req' = [req EXCEPT ![r].outcome = outcome, ![r].pc = AfterInvoke(outcome)]
    /\ cur' = r
    /\ UNCHANGED <<broker, call, hasSender, tasks, task_messages, push_infos, published, nreq>>

\* lines 313-325: the text artifact is stored, then published
RunTextArtifact(r) ==
    /\ Holds(r) /\ req[r].kind = "subscribe" /\ req[r].pc = "text"
    /\ tasks' = UpdateStore(tasks, req[r].tid, NoStatus, <<0>>)
    /\ task_messages' = UpdateMessages(task_messages, req[r].tid, NoStatus)
    /\ published' = Publish(published, req[r].tid, ArtifactEvent(0))
    /\ req' = [req EXCEPT ![r].appended = @ + 1,
                          ![r].events = Append(@, ArtifactEvent(0)),
                          ![r].pc = IF ImagePresent(req[r].outcome)
                                    THEN "image" ELSE "complete"]
    /\ cur' = r
    /\ UNCHANGED <<broker, call, hasSender, push_infos, nreq>>

\* lines 328-348: the image artifact is stored, then published
RunImageArtifact(r) ==
    /\ Holds(r) /\ req[r].kind = "subscribe" /\ req[r].pc = "image"
    /\ tasks' = UpdateStore(tasks, req[r].tid, NoStatus, <<1>>)
    /\ task_messages' = UpdateMessages(task_messages, req[r].tid, NoStatus)
    /\ published' = Publish(published, req[r].tid, ArtifactEvent(1))
    /\ req' = [req EXCEPT ![r].appended = @ + 1, ![r].pc = "complete",
                          ![r].events = Append(@, ArtifactEvent(1))]
    /\ cur' = r
    /\ UNCHANGED <<broker, call, hasSender, push_infos, nreq>>

\* the status of the run's last update: COMPLETED with the summary, or ERROR
\* when the except block ran
FinalStatus(rec) ==
    IF rec.outcome = "raise" \/ rec.caught THEN StreamFailureStatus
    ELSE TaskStatus("COMPLETED", Summary(rec.outcome))

\* the local task_status (lines 279, 295, 367, 386) a run builds its next status
\* event from
PublishedStatus(rec) ==
    IF rec.pc \in {"publish1", "publish2"}
    THEN TaskStatus("WORKING", WorkingMessage(rec.pc))
    ELSE FinalStatus(rec)

\* lines 366-371 and 382-390: the terminal status is stored, notify
RunUpdateFinal(r) ==
    /\ Holds(r) /\ req[r].kind = "subscribe" /\ req[r].pc \in {"complete", "error"}
    /\ LET tid == req[r].tid
           status == FinalStatus(req[r])
       IN /\ tasks' = UpdateStore(tasks, tid, status, <<>>)
          /\ task_messages' = UpdateMessages(task_messages, tid, status)
    /\ req' = [req EXCEPT ![r] = AfterNotify(@, "publishF")]
    /\ cur' = CurAfterNotify(r)
    /\ UNCHANGED <<broker, call, hasSender, push_infos, published, nreq>>

\* lines 373-376 and 392-395: the final event
RunPublishFinal(r) ==
    /\ Holds(r) /\ req[r].kind = "subscribe" /\ req[r].pc = "publishF"
    /\ LET event == StatusEvent(FinalStatus(req[r]), TRUE)
       IN /\ published' = Publish(published, req[r].tid, event)
          /\ req' = [req EXCEPT ![r].pc = "done", ![r].events = Append(@, event)]
    /\ cur' = r
    /\ UNCHANGED <<broker, call, hasSender, tasks, task_messages, push_infos, nreq>>

\* ------------------------------------------------- on_resubscribe_to_task
\* lines 409-416: the response when setup_sse_consumer raised
ResubscribeResponseMut(opened) == IF opened THEN "stream" ELSE "raised"
ResubscribeResponse(opened) == IF opened THEN "stream" ELSE "InternalError"

\* lines 397-416: setup_sse_consumer(id, True) returns a queue or raises; the
\* handler returns the event source of the queue, or InternalError
Resubscribe(r) ==
    /\ Arrives(r)
    /\ nreq' = r
    /\ \E tid \in TaskIds, opened \in BOOLEAN :
          req' = [req EXCEPT ![r] =
                    [IdleReq EXCEPT !.kind = "resubscribe", !.tid = tid,
                                    !.pc = "done",
                                    !.resp = ResubscribeResponse(opened),
                                    !.handle = IF opened
                                               THEN SetupSseConsumer(published, tid)
                                               ELSE -1]]
    /\ cur' = r
    /\ UNCHANGED <<broker, call, hasSender, tasks, task_messages, push_infos, published>>

\* a handler returned (or raised), a run ended: the coroutine is gone and the
\* event loop is free again
Finish(r) ==
    /\ Holds(r) /\ req[r].pc \in {"done", "crashed"}
    /\ req' = [req EXCEPT ![r] = GoneReq]
    /\ cur' = 0
    /\ UNCHANGED <<broker, call, hasSender, tasks, task_messages, push_infos, published, nreq>>

\* ------------------------------------------------------------------- Next
Next ==
    \/ \E r \in Reqs : SendReceive(r)
    \/ \E r \in Reqs, verified \in BOOLEAN : SendVerifyReturn(r, verified)
    \/ \E r \in Reqs : SendUpsertWorking(r)
    \/ \E r \in Reqs, delivered \in BOOLEAN : DeliverReturn(r, delivered)
    \/ \E r \in Reqs : SendQuery(r)
    \/ \E r \in Reqs, outcome \in AgentOutcomes : SendAgentReturn(r, outcome)
    \/ \E r \in Reqs : SendReturn(r)
    \/ \E r \in Reqs : SubscribeReceive(r)
    \/ \E r \in Reqs, verified \in BOOLEAN : SubscribeVerifyReturn(r, verified)
    \/ \E r \in Reqs : SubscribeSetup(r)
    \/ \E r \in Reqs : RunStart(r)
    \/ \E r \in Reqs : RunUpdateWorking(r)
    \/ \E r \in Reqs : RunPublishWorking(r)
    \/ \E r \in Reqs, outcome \in AgentOutcomes : RunAgentReturn(r, outcome)
    \/ \E r \in Reqs : RunTextArtifact(r)
    \/ \E r \in Reqs : RunImageArtifact(r)
    \/ \E r \in Reqs : RunUpdateFinal(r)
    \/ \E r \in Reqs : RunPublishFinal(r)
    \/ \E r \in Reqs : Resubscribe(r)
    \/ \E r \in Reqs : Finish(r)

Spec == Init /\ [][Next]_vars

\* the steps of request r that the event loop, the network and the agent take
\* once the request is received: the loop resumes every ready coroutine, and
\* every awaited call (challenge request, delivery, invoke) returns or raises
Progress(r) ==
    \/ \E verified \in BOOLEAN : SendVerifyReturn(r, verified)
    \/ SendUpsertWorking(r)
    \/ \E delivered \in BOOLEAN : DeliverReturn(r, delivered)
    \/ SendQuery(r)
    \/ \E outcome \in AgentOutcomes : SendAgentReturn(r, outcome)
    \/ SendReturn(r)
    \/ \E verified \in BOOLEAN : SubscribeVerifyReturn(r, verified)
    \/ SubscribeSetup(r)
    \/ RunStart(r)
    \/ RunUpdateWorking(r)
    \/ RunPublishWorking(r)
    \/ \E outcome \in AgentOutcomes : RunAgentReturn(r, outcome)
    \/ RunTextArtifact(r)
    \/ RunImageArtifact(r)
    \/ RunUpdateFinal(r)
    \/ RunPublishFinal(r)
    \/ Finish(r)

\* requests arrive when clients send them; everything else is bound to happen
FairSpec == Spec /\ \A r \in Reqs : WF_vars(Progress(r))

\* ------------------------------------------- the operations called one by one
\* _validate_request, upsert_task, update_store and set_push_notification_info
\* are methods of the task manager; here each is called directly, with any
\* arguments, on the store the earlier calls left.
MaxCalls == 3

Urls == {"url", "url2"}
CallStatuses ==
    {NoStatus} \cup {TaskStatus(s, m) : s \in {"WORKING", "COMPLETED"},
                                         m \in {"-", "note", "more"}}
CallArtifacts == {<<>>, <<0>>, <<0, 1>>}

\* _validate_request(request)
CallValidate(accepted, push) ==
    /\ call.n < MaxCalls
    /\ call' = [n |-> call.n + 1, op |-> "validate",
                accepted |-> accepted, push |-> push,
                result |-> ValidateRequest(
                    AreModalitiesCompatible(accepted, SUPPORTED_CONTENT_TYPES), push)]
    /\ UNCHANGED <<broker, hasSender, tasks, task_messages, push_infos, published,
                   req, cur, nreq>>

\* upsert_task(params)
CallUpsert(tid) ==
    /\ call.n < MaxCalls
    /\ tasks' = UpsertTask(tasks, tid)
    /\ call' = [n |-> call.n + 1, op |-> "upsert", tid |-> tid]
    /\ UNCHANGED <<broker, hasSender, task_messages, push_infos, published, req, cur, nreq>>

\* update_store(task_id, status, artifacts)
CallUpdate(tid, status, artifacts) ==
    /\ call.n < MaxCalls
    /\ tasks' = UpdateStore(tasks, tid, status, artifacts)
    /\ task_messages' = IF UpdateRaises(tasks, tid) THEN task_messages
                        ELSE UpdateMessages(task_messages, tid, status)
    /\ call' = [n |-> call.n + 1, op |-> "update", tid |-> tid,
                status |-> status,
                result |-> IF UpdateRaises(tasks, tid) THEN "ValueError" ELSE "task"]
    /\ UNCHANGED <<broker, hasSender, push_infos, published, req, cur, nreq>>

\* set_push_notification_info(task_id, config), the challenge request included
CallSetPush(tid, url, verified) ==
    /\ call.n < MaxCalls
    /\ push_infos' = SetPushNotificationInfo(push_infos, hasSender, tid, url, verified)
    /\ call' = [n |-> call.n + 1, op |-> "set_push", tid |-> tid,
                url |-> url, verified |-> verified,
                result |-> PushInfoSet(hasSender, verified)]
    /\ UNCHANGED <<broker, hasSender, tasks, task_messages, published, req, cur, nreq>>

CallNext ==
    \/ \E accepted \in AcceptedModeSets, push \in PushKinds :
            CallValidate(accepted, push)
    \/ \E tid \in TaskIds : CallUpsert(tid)
    \/ \E tid \in TaskIds, status \in CallStatuses, artifacts \in CallArtifacts :
            CallUpdate(tid, status, artifacts)
    \/ \E tid \in TaskIds, url \in Urls, verified \in BOOLEAN :
            CallSetPush(tid, url, verified)

CallSpec == Init /\ [][CallNext]_vars

\* ------------------------------------------------- response assembly
\* The agent's result: content is the content package, of which the summary
\* reads the platform of each of its four posts ('' when the key is missing);
\* image is None or an Imagedata whose error is None or an error string.
PlatformValues == {"", "X", "LinkedIn"}
Contents ==
    [x_content : PlatformValues, facebook_content : PlatformValues,
     instagram_content : PlatformValues, linkedin_content : PlatformValues]
NoImage == [kind |-> "None", error |-> "None"]
Images == {NoImage} \cup {[kind |-> "Imagedata", error |-> e] :
                              e \in {"None", "quota", "no image"}}

\* list(set(...)) yields the members in the interpreter's iteration order,
\* which is fixed for equal strings within one process: order is that order
SetOrders ==
    {o \in [1..3 -> PlatformValues] : \A i, j \in 1..3 : o[i] = o[j] => i = j}
NonEmpty(p) == p # ""
ListOfSet(S, order) == SelectSeq(order, LAMBDA p : p \in S)

TextArtifact == [index |-> 0, title |-> "Content Package"]
ImageArtifact == [index |-> 1, title |-> "Generated Image"]

\* `image_data and not image_data.error`, `image_data and image_data.error`
ImageOk(image) == image # NoImage /\ image.error = "None"
ImageFailed(image) == image # NoImage /\ image.error # "None"

\* _process_agent_response, lines 164-191: the artifacts handed to update_store
SendArtifacts(image) ==
    <<TextArtifact>> \o (IF ImageOk(image) THEN <<ImageArtifact>> ELSE <<>>)

\* lines 194-200: the platforms named by the summary
SendPlatformsMut(content, order) ==
    SelectSeq(<<content.x_content, content.facebook_content,
                content.instagram_content, content.linkedin_content>>, NonEmpty)
SendPlatforms(content, order) ==
    SelectSeq(ListOfSet({content.x_content, content.facebook_content,
                         content.instagram_content, content.linkedin_content},
                        order), NonEmpty)

\* lines 202-206
SendSummary(content, image, order) ==
    [platforms |-> SendPlatforms(content, order),
     clause |-> IF ImageOk(image) THEN <<"Generated matching image">>
                ELSE IF ImageFailed(image)
                     THEN <<"Image generation failed", image.error>>
                     ELSE <<>>]

\* _run_streaming_content_creation, lines 309-347: the text artifact is stored
\* by one update_store, the image artifact by a second one; update_store
\* extends the task's artifact list
StreamArtifacts(image) ==
    LET afterText == <<>> \o <<TextArtifact>>
    IN IF ImageOk(image) THEN afterText \o <<ImageArtifact>> ELSE afterText

\* lines 350-356
StreamPlatforms(content, order) ==
    SelectSeq(ListOfSet({content.x_content, content.facebook_content,
                         content.instagram_content, content.linkedin_content},
                        order), NonEmpty)

\* lines 358-362
StreamSummary(content, image, order) ==
    [platforms |-> StreamPlatforms(content, order),
     clause |-> IF ImageOk(image) THEN <<"Generated matching image">>
                ELSE IF ImageFailed(image)
                     THEN <<"Image generation failed", image.error>>
                     ELSE <<>>]

\* one agent result assembled on both paths in the same process
CallAssemble(content, image, order) ==
    /\ call.n < MaxCalls
    /\ call' = [n |-> call.n + 1, op |-> "assemble",
                content |-> content, image |-> image,
                send |-> [artifacts |-> SendArtifacts(image),
                          summary |-> SendSummary(content, image, order)],
                stream |-> [artifacts |-> StreamArtifacts(image),
                            summary |-> StreamSummary(content, image, order)]]
    /\ UNCHANGED <<broker, hasSender, tasks, task_messages, push_infos, published,
                   req, cur, nreq>>

AssembleNext ==
    \E content \in Contents, image \in Images, order \in SetOrders :
        CallAssemble(content, image, order)

AssembleSpec == Init /\ [][AssembleNext]_vars

\* ------------------------------------------------------ event broker
\* open(task_id): a new consumer with an empty queue, attached to the id
BrokerOpen(s, tid) ==
    /\ broker.subscribers[s].state = "new"
    /\ broker' = [broker EXCEPT !.subscribers[s] =
                    [state |-> "open", tid |-> tid,
                     at |-> Len(broker.events[tid]),
                     queue |-> <<>>, received |-> <<>>]]
    /\ UNCHANGED <<call, hasSender, tasks, task_messages, push_infos, published,
                   req, cur, nreq>>

\* the subscribers a publish for tid reaches: every open one of that id
Attached(subs, tid) ==
    {s \in Subscribers : subs[s].state = "open" /\ subs[s].tid = tid}

\* publish(task_id, event), the queues: the event is appended to the queue of
\* every attached subscriber; the queues are unbounded
EnqueueMut(subs, tid, event) ==
    [s \in Subscribers |->
        IF s \in Attached(subs, tid) /\ \A o \in Attached(subs, tid) : s <= o
        THEN [subs[s] EXCEPT !.queue = Append(@, event)]
        ELSE subs[s]]
Enqueue(subs, tid, event) ==
    [s \in Subscribers |->
        IF s \in Attached(subs, tid)
        THEN [subs[s] EXCEPT !.queue = Append(@, event)]
        ELSE subs[s]]

\* the events published over all ids
Published(b) == Len(b.events["t1"]) + Len(b.events["t2"])

\* publish(task_id, event): no condition on the consumers or their queues
BrokerPublish(tid, final) ==
    /\ Published(broker) < MaxEvents
    /\ LET event == [id |-> tid, n |-> Published(broker) + 1, final |-> final]
       IN broker' = [events |-> [broker.events EXCEPT ![tid] = Append(@, event)],
                     subscribers |-> Enqueue(broker.subscribers, tid, event)]
    /\ UNCHANGED <<call, hasSender, tasks, task_messages, push_infos, published,
                   req, cur, nreq>>

\* consume(handle), one element: the head of the queue is handed to the
\* consumer; the sequence ends with the first event that has final = true
BrokerConsume(s) ==
    /\ broker.subscribers[s].state = "open"
    /\ broker.subscribers[s].queue # <<>>
    /\ LET event == Head(broker.subscribers[s].queue)
       IN broker' = [broker EXCEPT !.subscribers[s] =
                       [@ EXCEPT !.queue = Tail(@),
                                 !.received = Append(@, event),
                                 !.state = IF event.final THEN "closed" ELSE @]]
    /\ UNCHANGED <<call, hasSender, tasks, task_messages, push_infos, published,
                   req, cur, nreq>>

BrokerNext ==
    \/ \E s \in Subscribers, tid \in BrokerIds : BrokerOpen(s, tid)
    \/ \E tid \in BrokerIds, final \in BOOLEAN : BrokerPublish(tid, final)
    \/ \E s \in Subscribers : BrokerConsume(s)

BrokerSpec == Init /\ [][BrokerNext]_vars

\* ----------------------------------------------------- image generation
\* generate_image(prompt) with the environment it reads: the GOOGLE_API_KEY
\* variable ("" when unset or empty) and what the image service does
Prompts == {"", "a fox", "a heron"}
ApiKeys == {"", "key"}
ServiceOutcomes == {"image", "no_image", "raise"}

\* class Imagedata, lines 14-18: id, bytestring and mime_type have no default
ImagedataRequired == {"id", "bytestring", "mime_type"}
Raised(exc) == [kind |-> "raise", error |-> exc]

\* Imagedata(**given, error = error): the model validates its fields and raises
\* ValidationError when a field without default is not given
NewImagedata(given, error) ==
    IF ImagedataRequired \subseteq given
    THEN [kind |-> "Imagedata", error |-> error]
    ELSE Raised("ValidationError")

\* lines 25-60, the body of the try
GenerateImageTry(api_key, service) ==
    IF api_key = ""
    THEN NewImagedata({}, "Google API key not found")
    ELSE IF service = "raise" THEN Raised("ServiceError")
    ELSE IF service = "image"
         THEN NewImagedata({"id", "bytestring", "mime_type"}, "None")
         ELSE NewImagedata({}, "No image was found in the response")

\* generate_image, lines 20-64: the empty prompt is answered before the try;
\* whatever the try raises reaches the handler of line 62, which builds its
\* own Imagedata
GenerateImage(prompt, api_key, service) ==
    IF prompt = ""
    THEN NewImagedata({}, "Prompt cannot be empty")
    ELSE LET tried == GenerateImageTry(api_key, service)
         IN IF tried.kind = "raise"
            THEN NewImagedata({}, "Error generating image")
            ELSE tried

\* ContentCreator.invoke, lines 78-85, for a content package whose image
\* prompt is prompt: an exception of generate_image is not caught
Invoke(prompt, api_key, service) ==
    LET image_data == GenerateImage(prompt, api_key, service)
    IN IF image_data.kind = "raise"
       THEN image_data
       ELSE [kind |-> "returned", error |-> image_data.error]

CallGenerateImage(prompt, api_key, service) ==
    /\ call.n < MaxCalls
    /\ call' = [n |-> call.n + 1, op |-> "generate_image",
                prompt |-> prompt, api_key |-> api_key, service |-> service,
                result |-> GenerateImage(prompt, api_key, service)]
    /\ UNCHANGED <<broker, hasSender, tasks, task_messages, push_infos, published,
                   req, cur, nreq>>

CallInvoke(prompt, api_key, service) ==
    /\ call.n < MaxCalls
    /\ call' = [n |-> call.n + 1, op |-> "invoke",
                prompt |-> prompt, api_key |-> api_key, service |-> service,
                result |-> Invoke(prompt, api_key, service)]
    /\ UNCHANGED <<broker, hasSender, tasks, task_messages, push_infos, published,
                   req, cur, nreq>>

ImageNext ==
    \/ \E prompt \in Prompts, api_key \in ApiKeys, service \in ServiceOutcomes :
            CallGenerateImage(prompt, api_key, service)
    \/ \E prompt \in Prompts, api_key \in ApiKeys, service \in ServiceOutcomes :
            CallInvoke(prompt, api_key, service)

ImageSpec == Init /\ [][ImageNext]_vars

\* ---------------------------------------------------------------- claims
Last(seq) == seq[Len(seq)]

IsPrefix(a, b) == Len(a) <= Len(b) /\ \A i \in 1..Len(a) : a[i] = b[i]

TaskOf(r) == tasks[req[r].tid]

\* a scheduled streaming run that has ended, normally or by an exception
RunEnded(r) == req[r].kind = "subscribe" /\ req[r].pc \in {"done", "crashed"}
                 /\ req[r].resp = "stream"

FinalEvents(seq) == {i \in 1..Len(seq) : seq[i].final}

\* C1: once a task's state is COMPLETED, FAILED or ERROR, no later step
\* changes that task's state, whatever requests arrive for its id.
C1_TerminalStateNeverChanges ==
    [][\A t \in TaskIds :
          tasks[t].status.state \in Terminal
              => tasks'[t].status.state = tasks[t].status.state]_vars

\* the event sequence a successful streaming run is said to publish
WorkingEvent == [type |-> "status", state |-> "WORKING", final |-> FALSE, index |-> -1]
ArtifactUpdate(i) == [type |-> "artifact", state |-> "-", final |-> FALSE, index |-> i]
FinalEvent(state) == [type |-> "status", state |-> state, final |-> TRUE, index |-> -1]

SuccessSequence(outcome) ==
    <<WorkingEvent, WorkingEvent, ArtifactUpdate(0)>>
      \o (IF outcome = "img_ok" THEN <<ArtifactUpdate(1)>> ELSE <<>>)
      \o <<FinalEvent("COMPLETED")>>

\* C2: a streaming run whose agent call succeeded publishes exactly WORKING,
\* WORKING, ArtifactUpdate(index 0), ArtifactUpdate(index 1) iff the image is
\* present without error, StatusUpdate(COMPLETED, final): at every moment its
\* events are a prefix of that sequence, and the whole sequence once it ended.
C2_StreamingSuccessSequence ==
    \A r \in Reqs :
        (req[r].kind = "subscribe" /\ req[r].outcome \in AgentSuccess)
            => /\ IsPrefix(req[r].events, SuccessSequence(req[r].outcome))
               /\ req[r].pc = "done"
                    => req[r].events = SuccessSequence(req[r].outcome)

C2_Witness ==
    \E r \in Reqs :
        /\ req[r].kind = "subscribe" /\ req[r].pc = "done"
        /\ req[r].outcome = "img_ok" /\ Len(req[r].events) = 5

\* C3: every scheduled streaming run that has ended, by success or by a
\* failure at any step, has published exactly one final event, carrying
\* COMPLETED or ERROR, as its last event.
C3_ExactlyOneFinalEvent ==
    \A r \in Reqs :
        RunEnded(r)
            => /\ FinalEvents(req[r].events) = {Len(req[r].events)}
               /\ req[r].events # <<>>
               /\ Last(req[r].events).state \in {"COMPLETED", "ERROR"}

\* C4: in the stream of events published for a task id, by all runs started
\* for that id, nothing follows an event with final = true.
C4_NothingAfterFinal ==
    \A t \in TaskIds :
        \A i \in 1..Len(published[t]) :
            published[t][i].final => i = Len(published[t])

\* C5: every accepted handleSendSubscribe request's run ends having moved the
\* task to a terminal state and published a final event, also for a message
\* whose first part is not text or whose part list is empty (the liveness
\* claim in the form a finite run refutes: a run that has ended, has done so).
C5_AcceptedSubscribeReachesFinal ==
    \A r \in Reqs :
        RunEnded(r)
            => \E i \in 1..Len(req[r].events) :
                  req[r].events[i].final /\ req[r].events[i].state \in Terminal

\* C6: when handleSend finishes for a request that passed validation and push
\* registration, it returned a result and the task is COMPLETED, or it returned
\* an InternalError and the task is FAILED.
C6_SendEndsTerminal ==
    \A r \in Reqs :
        (req[r].kind = "send" /\ req[r].pc = "done"
           /\ req[r].resp \notin {"IncompatibleTypes", "InvalidParams"})
            => \/ req[r].resp = "result" /\ TaskOf(r).status.state = "COMPLETED"
               \/ req[r].resp = "InternalError" /\ TaskOf(r).status.state = "FAILED"

\* C7: in handleSend, when invoke raises, the step that handles it stores
\* FAILED with the error message and appends no artifact, and the request
\* ends with an InternalError, no artifact appended and invoke called once.
C7_SendAgentFailure ==
    [][\A r \in Reqs :
         /\ (req[r].kind = "send" /\ req[r].pc = "invoke"
                /\ req'[r].outcome = "raise")
              => /\ tasks'[req[r].tid].status = TaskStatus("FAILED", "error")
                 /\ tasks'[req[r].tid].artifacts = tasks[req[r].tid].artifacts
                 /\ task_messages'[req[r].tid]
                        = Append(task_messages[req[r].tid], "error")
         /\ (req'[r].kind = "send" /\ req'[r].outcome = "raise")
              => /\ req'[r].invokes = 1 /\ req'[r].appended = 0
                 /\ req'[r].pc = "done" => req'[r].resp = "InternalError"
      ]_vars

C7_Witness ==
    \E r \in Reqs :
        /\ req[r].kind = "send" /\ req[r].outcome = "raise"
        /\ req[r].pc = "done" /\ req[r].resp = "InternalError"

\* C8: in the streaming run, when invoke raises, the step that handles it
\* stores ERROR (never FAILED) with the error message and appends no artifact;
\* the run publishes no ArtifactUpdate and its last event, once it ended, is
\* StatusUpdate(ERROR, final = true).
C8_StreamAgentFailure ==
    [][\A r \in Reqs :
         /\ (req[r].kind = "subscribe" /\ req[r].pc = "error"
                /\ req'[r].pc # "error")
              => /\ tasks'[req[r].tid].status = TaskStatus("ERROR", "error")
                 /\ tasks'[req[r].tid].artifacts = tasks[req[r].tid].artifacts
                 /\ task_messages'[req[r].tid]
                        = Append(task_messages[req[r].tid], "error")
         /\ (req'[r].kind = "subscribe" /\ req'[r].outcome = "raise")
              => /\ req'[r].appended = 0
                 /\ \A i \in 1..Len(req'[r].events) :
                        req'[r].events[i].type # "artifact"
                 /\ req'[r].pc = "done"
                      => Last(req'[r].events) = FinalEvent("ERROR")
      ]_vars

C8_Witness ==
    \E r \in Reqs :
        /\ req[r].kind = "subscribe" /\ req[r].outcome = "raise"
        /\ req[r].pc = "done" /\ Len(req[r].events) = 3

\* C9: every handleSend request whose agent call succeeded returns a COMPLETED
\* task whose artifact list is exactly [text 0, image 1] when the image is
\* present without error and exactly [text 0] otherwise.
C9_SendSuccessArtifacts ==
    \A r \in Reqs :
        (req[r].kind = "send" /\ req[r].pc = "done" /\ req[r].resp = "result")
            => /\ TaskOf(r).status.state = "COMPLETED"
               /\ TaskOf(r).artifacts
                     = IF req[r].outcome = "img_ok" THEN <<0, 1>> ELSE <<0>>

\* C10: in every task's artifact list the indices are pairwise distinct and
\* never decrease along the list.
C10_ArtifactIndicesDistinctOrdered ==
    \A t \in TaskIds :
        \A i, j \in 1..Len(tasks[t].artifacts) :
            i < j => tasks[t].artifacts[i] < tasks[t].artifacts[j]

\* the store: task records, message history, push configs and event streams
Store == <<tasks, task_messages, push_infos, published>>

\* a request rejected by _validate_request ends in the step that received it
ValidationErrors == {"IncompatibleTypes", "InvalidParams"}

\* C11: when validation fails, handleSend and handleSendSubscribe return the
\* validation error and leave the whole store as it was: no task is created, no
\* status, artifact or history changes, no push config is registered, the agent
\* is not invoked and no event is published.
C11_ValidationFailureLeavesStore ==
    [][\A r \in Reqs :
          (req[r].pc = "idle" /\ req'[r].pc = "done"
                                /\ req'[r].kind \in {"send", "subscribe"})
              => /\ req'[r].resp \in ValidationErrors
                 /\ Store' = Store
                 /\ req'[r].invokes = 0
                 /\ req'[r].events = <<>>
                 /\ req'[r].handle = -1]_vars

C11_Witness ==
    \E r \in Reqs :
        /\ req[r].kind = "subscribe" /\ req[r].pc = "done"
        /\ req[r].resp = "IncompatibleTypes"
        /\ ~tasks[req[r].tid].present

\* what the claim says _validate_request returns
ClaimedValidation(accepted, push) ==
    IF accepted \cap SUPPORTED_CONTENT_TYPES = {} THEN "IncompatibleTypes"
    ELSE IF push = "empty_url" THEN "InvalidParams"
    ELSE "ok"

\* C12: _validate_request returns IncompatibleTypes for every request whose
\* accepted output modes have an empty intersection with the supported set (the
\* empty set of accepted modes included); otherwise it returns InvalidParams
\* exactly when a push config with an empty URL is attached; otherwise no error.
C12_ValidateRequest ==
    call.op = "validate"
        => call.result = ClaimedValidation(call.accepted, call.push)

C12_Witness ==
    /\ call.op = "validate"
    /\ call.accepted = {"video/mp4"} /\ call.push = "empty_url"
    /\ call.result = "IncompatibleTypes"

\* C13: on handleSend, a push config whose verification fails ends the request
\* with InvalidParams; the request creates or advances no task, leaves the store
\* as it was, and does not invoke the agent.
C13_SendVerificationFailure ==
    [][\A r \in Reqs :
          /\ (req[r].pc = "idle" /\ req'[r].kind = "send" /\ req'[r].pc = "verify")
                => Store' = Store
          /\ (req[r].kind = "send" /\ req[r].pc = "verify" /\ req'[r].verified = "no")
                => /\ req'[r].pc = "done"
                   /\ req'[r].resp = "InvalidParams"
                   /\ req'[r].invokes = 0
                   /\ Store' = Store]_vars

C13_Witness ==
    \E r \in Reqs :
        /\ req[r].kind = "send" /\ req[r].verified = "no"
        /\ req[r].pc = "done" /\ req[r].resp = "InvalidParams"
        /\ ~tasks[req[r].tid].present

\* C14: on handleSendSubscribe, a push config whose verification fails is
\* rejected with InvalidParams before any task is created: the request has
\* created no task record, no run is scheduled and no handle is returned.
C14_SubscribeVerificationFailure ==
    \A r \in Reqs :
        (req[r].kind = "subscribe" /\ req[r].verified = "no")
            => /\ req[r].pc = "done"
               /\ req[r].resp = "InvalidParams"
               /\ req[r].handle = -1
               /\ ~req[r].created

\* C15: a push config is stored for a task id only by a register call whose
\* challenge verification returned true; when it returns false the register
\* call returns false and the stored config of the id is unchanged.
C15_PushConfigOnlyWhenVerified ==
    [][/\ \A t \in TaskIds :
            push_infos'[t] # push_infos[t]
                => /\ call'.op = "set_push" /\ call'.tid = t
                   /\ call'.verified /\ call'.result
                   /\ push_infos'[t] = call'.url
       /\ (call' # call /\ call'.op = "set_push" /\ ~call'.verified)
            => ~call'.result /\ push_infos' = push_infos]_vars

C15_Witness ==
    /\ call.op = "set_push" /\ ~call.verified /\ ~call.result
    /\ call.url = "url2" /\ push_infos[call.tid] = "url"

StoreUpdateStep(r) ==
    \/ req[r].pc \in {"upsert", "working1", "working2", "text", "image",
                       "complete", "error"}
    \/ req[r].kind = "send" /\ req[r].pc = "invoke"

\* C17: notify makes no delivery call for a task with no registered config,
\* and with a verified config it makes exactly one delivery call for every
\* store update applied to the task, status and artifact updates alike, on the
\* send path and on the streaming path.
C17_OneDeliveryPerStoreUpdate ==
    [][\A r \in Reqs :
          /\ (StoreUpdateStep(r) /\ req'[r] # req[r])
                => (req'[r].pc = "deliver") = NeedsDelivery(req[r].tid)
          /\ (req[r].pc # "deliver" /\ req'[r].pc = "deliver")
                => StoreUpdateStep(r) /\ NeedsDelivery(req[r].tid)]_vars

\* C18: upsert on an id that already has a record leaves the record, its state
\* and its artifacts as they are, whatever the state; only an absent id gets a
\* new record, in SUBMITTED with no artifacts.
C18_UpsertIdempotent ==
    [][(call' # call /\ call'.op = "upsert")
          => IF tasks[call'.tid].present
             THEN tasks' = tasks
             ELSE tasks' = [tasks EXCEPT ![call'.tid] =
                              [present |-> TRUE,
                               status |-> TaskStatus("SUBMITTED", "-"),
                               artifacts |-> <<>>]]]_vars

C18_Witness ==
    /\ call.op = "upsert"
    /\ tasks[call.tid].status.state = "COMPLETED"
    /\ tasks[call.tid].artifacts = <<0, 1>>

\* C19: update_store on an unknown task id fails with an error and changes
\* nothing: no task record is created and no message-history entry is created
\* or appended.
C19_UpdateUnknownIdFails ==
    [][(call' # call /\ call'.op = "update" /\ ~tasks[call'.tid].present)
          => /\ call'.result = "ValueError"
             /\ tasks' = tasks
             /\ task_messages' = task_messages]_vars

C19_Witness ==
    /\ call.op = "update" /\ call.result = "ValueError"
    /\ ~tasks[call.tid].present
    /\ task_messages[call.tid] = <<>>

\* a step in which request r publishes an event
PublishStep(r) == Len(req'[r].events) = Len(req[r].events) + 1

Range(seq) == {seq[i] : i \in 1..Len(seq)}

\* C20 as stated: at the moment a StatusUpdate event is published the stored
\* task's status equals the event's status, and at the moment an ArtifactUpdate
\* event is published its artifact is already in the stored artifact list.
C20_StoreEqualsEventAtPublish ==
    [][\A r \in Reqs :
          PublishStep(r)
              => LET e == Last(req'[r].events)
                 IN IF e.type = "status"
                    THEN tasks'[req[r].tid].status = PublishedStatus(req[r])
                    ELSE e.index \in Range(tasks'[req[r].tid].artifacts)]_vars

\* C20 amended: the store update happens before the event: when a StatusUpdate
\* event is published the run's update_store of that status has been applied
\* (its message is in the task's history), and the stored status equals the
\* event's status whenever no push delivery was awaited in between (no sender
\* or no registered config); with a delivery awaited, another request on the
\* same id may have replaced the stored status meanwhile.  An ArtifactUpdate's
\* artifact is already in the stored artifact list.
C20_StoreUpdateBeforeEvent ==
    [][\A r \in Reqs :
          PublishStep(r)
              => LET e == Last(req'[r].events)
                     tid == req[r].tid
                 IN IF e.type = "status"
                    THEN /\ PublishedStatus(req[r]).message \in Range(task_messages'[tid])
                         /\ e.state = PublishedStatus(req[r]).state
                         /\ ~NeedsDelivery(tid)
                               => tasks'[tid].status = PublishedStatus(req[r])
                    ELSE e.index \in Range(tasks'[tid].artifacts)]_vars

C20_Witness ==
    \E r \in Reqs :
        /\ req[r].kind = "subscribe" /\ req[r].pc = "working2"
        /\ Len(req[r].events) = 1
        /\ NeedsDelivery(req[r].tid)
        /\ TaskOf(r).status.state = "COMPLETED"

\* an event with final = true is on the stream of task t after position h
FinalAfter(t, h) ==
    \E i \in (h + 1)..Len(published[t]) : published[t][i].final

\* C25: every subscriber handle opened for a task, by handleSendSubscribe or by
\* resubscribe (also one that attaches after the final event of the task's run),
\* eventually delivers an event with final = true, provided the agent call
\* returns or raises.
C25_HandleDeliversFinal ==
    \A r \in Reqs : \A t \in TaskIds : \A h \in 0..(5 * MaxRequests) :
        (req[r].resp = "stream" /\ req[r].tid = t /\ req[r].handle = h)
            ~> FinalAfter(t, h)

\* C23: resubscribe never invokes the agent and never changes a task's status,
\* artifacts or history; it only opens a subscriber handle for the task id, or
\* returns an InternalError response when opening fails.
C23_ResubscribeOnlyOpensHandle ==
    [][\A r \in Reqs :
          (req'[r].kind = "resubscribe" /\ req'[r] # req[r])
              => /\ Store' = Store
                 /\ req'[r].invokes = 0
                 /\ req'[r].pc = "done"
                 /\ \/ /\ req'[r].resp = "stream"
                       /\ req'[r].handle = Len(published[req'[r].tid])
                    \/ /\ req'[r].resp = "InternalError"
                       /\ req'[r].handle = -1]_vars

C23_Witness ==
    \E r \in Reqs :
        /\ req[r].kind = "resubscribe" /\ req[r].resp = "stream"
        /\ TaskOf(r).status.state = "COMPLETED"
        /\ req[r].handle = Len(published[req[r].tid])
        /\ req[r].handle > 0

\* C21: update is atomic under concurrency: the status change, the history
\* append and the artifact append of one update take effect in one step, and no
\* state shows part of an update: a changed status arrives together with its
\* message in the history, the history only grows by the message of the status
\* stored in the same step, and the send path's artifacts arrive together with
\* the COMPLETED status.
C21_UpdateIsOneStep ==
    [][\A t \in TaskIds :
          LET old == tasks[t].status
              new == tasks'[t].status
              hist == task_messages[t]
              grown == IF new.message # "-" THEN Append(hist, new.message) ELSE hist
          IN /\ new # old => task_messages'[t] = grown
             /\ task_messages'[t] # hist => task_messages'[t] = grown /\ new.message # "-"
             /\ new.message # "-" => /\ task_messages'[t] # <<>>
                                       /\ Last(task_messages'[t]) = new.message
             /\ IsPrefix(tasks[t].artifacts, tasks'[t].artifacts)
             /\ \A r \in Reqs :
                   (req[r].kind = "send" /\ req[r].tid = t
                        /\ req'[r].appended > req[r].appended)
                     => /\ new.state = "COMPLETED"
                        /\ task_messages'[t] = Append(hist, new.message)]_vars

C21_Witness ==
    \E r1, r2 \in Reqs :
        /\ r1 # r2 /\ req[r1].tid = req[r2].tid
        /\ req[r1].kind = "subscribe" /\ req[r1].pc = "invoke"
        /\ req[r2].kind = "send" /\ req[r2].pc = "retC"
        /\ TaskOf(r1).status.state = "COMPLETED"
        /\ Len(task_messages[req[r1].tid]) >= 3

\* the status changes a lone request may apply on its path
AllowedChange(kind, from, to) ==
    \/ to = from
    \/ from = "-" /\ to = "SUBMITTED"
    \/ from = "-" /\ to = "WORKING" /\ kind = "send"
    \/ from = "SUBMITTED" /\ to = "WORKING"
    \/ from = "WORKING" /\ kind = "send" /\ to \in {"COMPLETED", "FAILED"}
    \/ from = "WORKING" /\ kind = "subscribe" /\ to \in {"COMPLETED", "ERROR"}

\* C24: for a single request on a fresh task id, every status change follows
\* SUBMITTED -> WORKING -> terminal (WORKING -> WORKING the only repeat): no task
\* becomes terminal without having been WORKING, the send path ends only in
\* COMPLETED or FAILED and the streaming path only in COMPLETED or ERROR.  (On
\* the send path upsert and the WORKING update are one step, lines 113-116.)
C24_LoneRequestLifecycle ==
    [][nreq' = 1
          => \A t \in TaskIds :
                AllowedChange(req[1].kind, tasks[t].status.state,
                              tasks'[t].status.state)]_vars

C24_Witness ==
    /\ nreq = 1 /\ req[1].kind = "subscribe" /\ req[1].pc = "done"
    /\ TaskOf(1).status.state = "ERROR"

\* C28: invoke is called at most once per accepted handleSend or
\* handleSendSubscribe request, never again after a failure, and not at all for
\* a request rejected by validation or by push-URL verification.
C28_InvokeAtMostOnce ==
    \A r \in Reqs :
        /\ req[r].invokes <= 1
        /\ req[r].outcome # "-" => req[r].invokes = 1
        /\ req[r].resp \in ValidationErrors => req[r].invokes = 0
        /\ req[r].verified = "no" => req[r].invokes = 0

C28_Witness ==
    \E r \in Reqs :
        /\ req[r].kind = "subscribe" /\ req[r].pc = "done"
        /\ req[r].outcome = "raise" /\ req[r].invokes = 1

\* C29: in handleSendSubscribe the subscriber is attached before the run is
\* scheduled, so the subscriber returned to the caller receives every event its
\* run publishes, from the first WORKING event on: when the run publishes, its
\* subscriber is attached and has not yet been closed by a final event.
C29_SubscriberReceivesRunEvents ==
    [][\A r \in Reqs :
          PublishStep(r)
              => /\ req[r].handle >= 0
                 /\ ~FinalAfter(req[r].tid, req[r].handle)]_vars

\* C30: without a notification sender, a request with a push config with a
\* non-empty URL is not rejected but goes on as a request without config; no
\* config is registered for any task and no verification or delivery call is
\* made in any reachable state.
C30_NoSenderNoPush ==
    ~hasSender
        => /\ \A t \in TaskIds : push_infos[t] = "none"
           /\ \A r \in Reqs :
                /\ req[r].pc \notin {"verify", "deliver"}
                /\ req[r].verified = "-"
                /\ req[r].push = "url"
                      => req[r].pc \in {"upsert", "setup"} /\ req[r].resp = "-"

C30_Witness ==
    \E r \in Reqs :
        /\ ~hasSender /\ req[r].push = "url"
        /\ req[r].kind = "subscribe" /\ req[r].pc = "setup"

\* C22: the message history is append-only. A successful update_store whose
\* status carries a message puts exactly that message at the end of the
\* task's history and touches no other history; every other call (an update
\* with no status, with a status without message, or one that raised, an
\* upsert, a validation, a push registration) leaves every history as it was.
C22_HistoryAppendOnly ==
    [][\A t \in TaskIds :
          IF /\ call'.op = "update" /\ call'.tid = t /\ call'.result = "task"
             /\ call'.status # NoStatus /\ call'.status.message # "-"
          THEN task_messages'[t] = Append(task_messages[t], call'.status.message)
          ELSE task_messages'[t] = task_messages[t]]_vars

\* a second message was appended behind a different first one
C22_Witness ==
    /\ call.op = "update" /\ call.result = "task"
    /\ call.status # NoStatus /\ call.status.message # "-"
    /\ Len(task_messages[call.tid]) >= 2
    /\ task_messages[call.tid][1] # Last(task_messages[call.tid])

\* C27: the summary names each distinct non-empty platform of the four posts
\* exactly once and nothing else; it ends with the image-success clause when
\* the image came without error, with the image's error string when it
\* carries one, and with no clause when there is no image; the text artifact
\* is always built and the image artifact exactly with an error-free image;
\* the send path and the streaming path build the same artifacts and summary.
PlatformsNamed(content) ==
    {content.x_content, content.facebook_content,
     content.instagram_content, content.linkedin_content} \ {""}
Occurrences(seq, x) == Cardinality({i \in 1..Len(seq) : seq[i] = x})
C27_SummaryOfResult ==
    call.op = "assemble"
        => LET sm == call.send.summary
               named == PlatformsNamed(call.content)
           IN /\ \A p \in named : Occurrences(sm.platforms, p) = 1
              /\ Range(sm.platforms) \subseteq named
              /\ (call.image # NoImage /\ call.image.error = "None")
                    => sm.clause = <<"Generated matching image">>
              /\ (call.image # NoImage /\ call.image.error # "None")
                    => /\ Len(sm.clause) = 2
                       /\ sm.clause[2] = call.image.error
              /\ call.image = NoImage => sm.clause = <<>>
              /\ call.send.artifacts
                    = IF call.image # NoImage /\ call.image.error = "None"
                      THEN <<TextArtifact, ImageArtifact>>
                      ELSE <<TextArtifact>>
              /\ call.stream = call.send

\* two posts share a platform, one has none, and the image failed
C27_Witness ==
    /\ call.op = "assemble"
    /\ call.content.x_content = "X" /\ call.content.facebook_content = "X"
    /\ call.content.instagram_content = ""
    /\ call.content.linkedin_content = "LinkedIn"
    /\ call.image.error = "quota"
    /\ Len(call.send.summary.platforms) = 2

\* C26: broadcast with order. Every event published for a task id is put on the
\* queue of every subscriber attached to that id at the time of the publish:
\* what an attached subscriber has taken plus what still waits in its queue is
\* exactly the sequence of events published for its id since it attached, in
\* the order of publication; a subscriber that has ended holds a prefix of it
\* ending with the final event; and a publish is possible whatever waits in
\* the queues of the consumers.
SinceAttached(s) ==
    LET sub == broker.subscribers[s]
    IN SubSeq(broker.events[sub.tid], sub.at + 1, Len(broker.events[sub.tid]))
C26_BroadcastInOrder ==
    /\ \A s \in Subscribers :
          LET sub == broker.subscribers[s]
          IN /\ sub.state = "open"
                  => sub.received \o sub.queue = SinceAttached(s)
             /\ sub.state = "closed"
                  => /\ IsPrefix(sub.received, SinceAttached(s))
                     /\ Last(sub.received).final
    /\ \A tid \in BrokerIds :
          Published(broker) < MaxEvents => ENABLED BrokerPublish(tid, FALSE)

\* two subscribers of one id: the first has taken two events, the same two
\* events still wait in the queue of the second, which has taken none
C26_Witness ==
    /\ broker.subscribers[1].state = "open" /\ broker.subscribers[2].state = "open"
    /\ broker.subscribers[1].tid = broker.subscribers[2].tid
    /\ Len(broker.subscribers[1].received) = 2
    /\ broker.subscribers[2].received = <<>>
    /\ broker.subscribers[2].queue = broker.subscribers[1].received

\* C31: generate_image never raises. For every prompt, the empty one included,
\* with or without an API key and whatever the image service does, it returns
\* an image result; when the prompt is empty, the key is missing, the response
\* has no image or the service raised, that result has its error field set;
\* and the agent's invoke returns the content with that image result.
ImageErrorCase ==
    call.prompt = "" \/ call.api_key = "" \/ call.service # "image"
C31_GenerateImageNeverRaises ==
    /\ call.op = "generate_image"
          => /\ call.result.kind = "Imagedata"
             /\ ImageErrorCase => call.result.error # "None"
    /\ call.op = "invoke"
          => /\ call.result.kind = "returned"
             /\ ImageErrorCase => call.result.error # "None"
====
